---------------------------- MODULE Spec2Model ----------------------------
(* A model of app.py: the Streamlit script main(), which is re-run from   *)
(* the top on every interaction, together with parse_fraction,            *)
(* create_graph and get_image_base64.                                     *)
(*                                                                        *)
(* Strings are sequences of one-character strings.  Exact rationals       *)
(* (fractions.Fraction) are pairs <<n, d>> in lowest terms with d > 0.    *)
EXTENDS Integers, Sequences, FiniteSets, TLC

VARIABLES
    pc,            \* position of the script run: "start", "form", "button", "generate",
                   \* or "done" once the run is over
    step,          \* index into MainSteps of the next statement of the button branch
    widgets,       \* the form's current field values (label -> text) of this run
    pressed,       \* what st.button returned in this run
    data,          \* the dict main() builds (key -> value)
    fig,           \* main()'s local fig
    img_str,       \* main()'s local img_str
    page,          \* what the run has put on the page: st.error messages, st.pyplot figure
    exc,           \* the uncaught exception that ended the run, or "none"
    session_state, \* st.session_state (key -> value), kept by Streamlit between runs
    s,             \* argument of a direct call of parse_fraction
    result         \* outcome of that call

vars == <<pc, step, widgets, pressed, data, fig, img_str, page, exc,
          session_state, s, result>>

\* Python's None, and a local not yet assigned
None == [none |-> TRUE]

--------------------------------------------------------------------------
(* Bounds of the model *)

\* longest argument string of a direct parse_fraction call
MaxLen == 4

\* characters of the argument strings
Alphabet == {"0", "1", "2", "+", "-", "/", ".", " "}

--------------------------------------------------------------------------
(* Exact rational arithmetic: fractions.Fraction *)

Abs(n) == IF n < 0 THEN -n ELSE n

RECURSIVE GCD(_, _)
GCD(a, b) == IF b = 0 THEN a ELSE GCD(b, a % b)

\* Fraction(n, d) with d # 0, in lowest terms, denominator positive
Frac(n, d) ==
    LET g == GCD(Abs(n), Abs(d))
        sg == IF d < 0 THEN -1 ELSE 1
    IN  <<sg * (n \div g), sg * (d \div g)>>

FracAdd(p, q) == Frac(p[1] * q[2] + q[1] * p[2], p[2] * q[2])

RECURSIVE Pow10(_)
Pow10(k) == IF k = 0 THEN 1 ELSE 10 * Pow10(k - 1)

RECURSIVE IsPow2(_)
IsPow2(n) == IF n = 1 THEN TRUE ELSE IF n % 2 # 0 THEN FALSE ELSE IsPow2(n \div 2)

--------------------------------------------------------------------------
(* String helpers: str.replace(' ', ''), str.split, int(digits) *)

Digits == {"0", "1", "2", "3", "4", "5", "6", "7", "8", "9"}

DigitVal(c) ==
    CASE c = "0" -> 0 [] c = "1" -> 1 [] c = "2" -> 2 [] c = "3" -> 3
      [] c = "4" -> 4 [] c = "5" -> 5 [] c = "6" -> 6 [] c = "7" -> 7
      [] c = "8" -> 8 [] c = "9" -> 9

AllDigits(t) == \A i \in 1..Len(t) : t[i] \in Digits

RECURSIVE ToInt(_)
ToInt(t) == IF t = <<>> THEN 0
            ELSE 10 * ToInt(SubSeq(t, 1, Len(t) - 1)) + DigitVal(t[Len(t)])

RemoveSpaces(t) == SelectSeq(t, LAMBDA c : c # " ")

\* index of the first occurrence of c in t, or 0
RECURSIVE IndexFrom(_, _, _)
IndexFrom(t, c, i) ==
    IF i > Len(t) THEN 0 ELSE IF t[i] = c THEN i ELSE IndexFrom(t, c, i + 1)

IndexOf(t, c) == IndexFrom(t, c, 1)

\* t.split(c): the pieces between occurrences of c, empty pieces kept
RECURSIVE Split(_, _)
Split(t, c) ==
    LET i == IndexOf(t, c)
    IN  IF i = 0 THEN <<t>>
        ELSE <<SubSeq(t, 1, i - 1)>> \o Split(SubSeq(t, i + 1, Len(t)), c)

--------------------------------------------------------------------------
(* Fraction(term) for a string: the rational it denotes, or the exception *)
(* the constructor raises.  The accepted forms are an optional sign, then *)
(* digits, digits/digits, or a decimal with a digit on one side of the    *)
(* point; a zero denominator raises ZeroDivisionError, anything else      *)
(* ValueError.  (Exponent forms need the letter e and are not covered.)   *)

Ok(v) == [ok |-> TRUE, val |-> v]
Raise(e) == [ok |-> FALSE, exc |-> e]

FractionBody(sign, body) ==
    LET sl == IndexOf(body, "/")
        pt == IndexOf(body, ".")
    IN  IF sl # 0
        THEN LET num == SubSeq(body, 1, sl - 1)
                 den == SubSeq(body, sl + 1, Len(body))
             IN  IF num = <<>> \/ den = <<>> \/ ~AllDigits(num) \/ ~AllDigits(den)
                 THEN Raise("ValueError")
                 ELSE IF ToInt(den) = 0
                 THEN Raise("ZeroDivisionError")
                 ELSE Ok(Frac(sign * ToInt(num), ToInt(den)))
        ELSE IF pt # 0
        THEN LET int == SubSeq(body, 1, pt - 1)
                 dec == SubSeq(body, pt + 1, Len(body))
             IN  IF (int = <<>> /\ dec = <<>>) \/ ~AllDigits(int) \/ ~AllDigits(dec)
                 THEN Raise("ValueError")
                 ELSE Ok(Frac(sign * (ToInt(int) * Pow10(Len(dec)) + ToInt(dec)),
                              Pow10(Len(dec))))
        ELSE IF body = <<>> \/ ~AllDigits(body)
        THEN Raise("ValueError")
        ELSE Ok(Frac(sign * ToInt(body), 1))

Fraction(term) ==
    IF term # <<>> /\ term[1] \in {"-", "+"}
    THEN FractionBody(IF term[1] = "-" THEN -1 ELSE 1, SubSeq(term, 2, Len(term)))
    ELSE FractionBody(1, term)

\* sum(Fraction(term) for term in terms): terms are converted left to right
\* and the first exception ends the sum
RECURSIVE SumFractions(_, _)
SumFractions(terms, acc) ==
    IF terms = <<>> THEN Ok(acc)
    ELSE LET f == Fraction(Head(terms))
         IN  IF ~f.ok THEN f ELSE SumFractions(Tail(terms), FracAdd(acc, f.val))

\* float(q): the double nearest to q, which is q itself exactly when the
\* denominator is a power of two (numerators here are far below 2^53)
Float(q) == [kind |-> "float", num |-> q[1], den |-> q[2], exact |-> IsPow2(q[2])]

\* the int 0 that parse_fraction returns after reporting an error
IntZero == [kind |-> "int", num |-> 0, den |-> 1, exact |-> TRUE]

\* parse_fraction(t): ret is the value returned (None when it raises),
\* error says whether st.error was called, raised is the exception that
\* leaves the function ("none" when it returns)
parse_fraction(t) ==
    LET r == SumFractions(Split(RemoveSpaces(t), "+"), <<0, 1>>)
    IN  IF r.ok THEN [ret |-> Float(r.val), error |-> FALSE, raised |-> "none"]
        ELSE IF r.exc = "ValueError"
        THEN [ret |-> IntZero, error |-> TRUE, raised |-> "none"]
        ELSE [ret |-> None, error |-> FALSE, raised |-> r.exc]

--------------------------------------------------------------------------
(* The form of main(): which fields a run renders, in order, and their    *)
(* default texts.  Fields are named by the data key they fill.            *)

graph_types == <<"polynomial", "sin", "cos", "derivative", "integral",
                 "circle", "sector", "linear">>

\* st.number_input("degree", min_value=1, max_value=5, value=2)
MinDegree == 1
MaxDegree == 5
DefaultDegree == 2

\* points of np.linspace(x_min, x_max, 1000)
LinspaceNum == 1000

CoefLabels == <<"coef0", "coef1", "coef2", "coef3", "coef4", "coef5">>
CoefLabel(i) == CoefLabels[i + 1]

\* the coefficient fields for range(top, -1, -1)
CoefFields(top) == [j \in 1..(top + 1) |-> CoefLabel(top + 1 - j)]

\* the text fields main() renders for a graph type, in the order it reads them
FormFields(type, degree) ==
    (CASE type = "polynomial" -> CoefFields(degree)
       [] type \in {"derivative", "integral"} -> CoefFields(2)
       [] type \in {"sin", "cos"} -> <<"amplitude", "frequency">>
       [] OTHER -> <<>>)
    \o (IF type \notin {"circle", "sector"}
        THEN <<"x_min", "x_max", "y_min", "y_max">> ELSE <<>>)
    \o (IF type \in {"circle", "sector"} THEN <<"radius">> ELSE <<>>)
    \o (IF type = "sector" THEN <<"start_angle", "end_angle">> ELSE <<>>)
    \o (IF type = "linear" THEN <<"x", "y">> ELSE <<>>)
    \o <<"xlabel", "ylabel">>

ListFields == {"x", "y"}
LabelFields == {"xlabel", "ylabel"}

\* the value= of each st.text_input
DefaultText(type, degree, f) ==
    CASE f \in {"coef0", "coef1", "coef2", "coef3", "coef4", "coef5"} ->
           LET top == IF type = "polynomial" THEN degree ELSE 2
           IN  IF f = CoefLabel(top) THEN <<"1">> ELSE <<"0">>
      [] f \in {"amplitude", "frequency", "radius"} -> <<"1">>
      [] f \in {"x_min", "y_min"} -> <<"-", "1", "0">>
      [] f \in {"x_max", "y_max"} -> <<"1", "0">>
      [] f = "start_angle" -> <<"0">>
      [] f = "end_angle" -> <<"9", "0">>
      [] f = "x" -> <<"1", ",", "2", ",", "3", ",", "4", ",", "5">>
      [] f = "y" -> <<"1", ",", "4", ",", "9", ",", "1", "6", ",", "2", "5">>
      [] f = "xlabel" -> <<"x">>
      [] f = "ylabel" -> <<"y">>

\* texts a user types over a default: a zero denominator or a '+'-signed
\* number in a number field, a shorter list or a zero denominator in a list
\* field, another label
EditTexts(f) ==
    IF f \in LabelFields THEN {<<"t">>}
    ELSE IF f \in ListFields
    THEN {<<"2", ",", "+", "3">>, <<"1", "/", "0", ",", "3">>}
    ELSE {<<"1", "/", "0">>, <<"+", "1">>}

\* the forms considered: a graph type (with a degree when polynomial) and
\* its fields at their defaults, or with one field changed
Forms ==
    UNION {
      UNION {
        LET fields == FormFields(type, degree)
            F == {fields[i] : i \in 1..Len(fields)}
            base == [f \in F |-> DefaultText(type, degree, f)]
        IN  {[type |-> type, degree |-> degree, texts |-> tx] :
               tx \in {base} \cup
                      UNION {{[base EXCEPT ![f] = t] : t \in EditTexts(f)} : f \in F}}
        : degree \in IF type = "polynomial" THEN MinDegree..MaxDegree
                     ELSE {DefaultDegree}}
      : type \in {graph_types[i] : i \in 1..Len(graph_types)}}

--------------------------------------------------------------------------
(* main(), lines 106-134: building the dict data from the form *)

Put(d, k, v) == [x \in DOMAIN d \cup {k} |-> IF x = k THEN v ELSE d[x]]

Get(d, k, default) == IF k \in DOMAIN d THEN d[k] ELSE default

\* data = {'type': graph_type, 'xlabel': "x", 'ylabel': "y"}
InitialData(w) ==
    Put(Put(Put(<<>>, "type", w.type), "xlabel", <<"x">>), "ylabel", <<"y">>)

\* the keys main() assigns for a form, in the order of assignment
DataKeys(w) ==
    (CASE w.type = "polynomial" -> <<"degree", "coefficients">>
       [] w.type \in {"derivative", "integral"} -> <<"coefficients">>
       [] w.type \in {"sin", "cos"} -> <<"amplitude", "frequency">>
       [] OTHER -> <<>>)
    \o (IF w.type \notin {"circle", "sector"}
        THEN <<"x_min", "x_max", "y_min", "y_max">> ELSE <<>>)
    \o (IF w.type \in {"circle", "sector"} THEN <<"radius">> ELSE <<>>)
    \o (IF w.type = "sector" THEN <<"start_angle", "end_angle">> ELSE <<>>)
    \o (IF w.type = "linear" THEN <<"x", "y">> ELSE <<>>)
    \o <<"xlabel", "ylabel">>

\* the texts handed to parse_fraction for one key, in order
KeyTexts(w, k) ==
    CASE k = "coefficients" ->
           LET cf == CoefFields(IF w.type = "polynomial" THEN w.degree ELSE 2)
           IN  [j \in 1..Len(cf) |-> w.texts[cf[j]]]
      [] k \in ListFields -> Split(w.texts[k], ",")
      [] k \in LabelFields \cup {"degree"} -> <<>>
      [] OTHER -> <<w.texts[k]>>

\* index of the first outcome that is an exception, or 0
RECURSIVE FirstRaiseFrom(_, _)
FirstRaiseFrom(rs, i) ==
    IF i > Len(rs) THEN 0
    ELSE IF rs[i].raised # "none" THEN i
    ELSE FirstRaiseFrom(rs, i + 1)

FirstRaise(rs) == FirstRaiseFrom(rs, 1)

\* the texts st.error reported, among the first n
ErrorsIn(texts, rs, n) ==
    LET idx == SelectSeq([j \in 1..n |-> j], LAMBDA j : rs[j].error)
    IN  [j \in 1..Len(idx) |-> texts[idx[j]]]

\* the value assigned to data[k] when every parse returned
KeyValue(w, k, rs) ==
    CASE k = "degree" -> w.degree
      [] k \in LabelFields -> w.texts[k]
      [] k \in ListFields \cup {"coefficients"} -> [j \in 1..Len(rs) |-> rs[j].ret]
      [] OTHER -> rs[1].ret

\* lines 108-134 run over the keys left to assign: the dict so far, the
\* errors reported so far, and the exception that ended the run, if any
RECURSIVE FillData(_, _, _, _)
FillData(w, keys, d, errs) ==
    IF keys = <<>> THEN [data |-> d, errors |-> errs, raised |-> "none"]
    ELSE LET k == Head(keys)
             texts == KeyTexts(w, k)
             rs == [j \in 1..Len(texts) |-> parse_fraction(texts[j])]
             r == FirstRaise(rs)
         IN  IF r # 0
             THEN [data |-> d, errors |-> errs \o ErrorsIn(texts, rs, r - 1),
                   raised |-> rs[r].raised]
             ELSE FillData(w, Tail(keys), Put(d, k, KeyValue(w, k, rs)),
                           errs \o ErrorsIn(texts, rs, Len(texts)))

--------------------------------------------------------------------------
(* create_graph(data) *)

\* the int n, as in the defaults of data.get and in radius + 1
IntVal(n) == [kind |-> "int", num |-> n, den |-> 1, exact |-> TRUE]

Neg(v) == [v EXCEPT !.num = -v.num]
AddInt(v, k) == [v EXCEPT !.num = v.num + k * v.den]

\* an array or list handed to ax.plot: where it comes from, its length,
\* and the values it is computed from
Array(src, len, args) == [src |-> src, len |-> len, args |-> args]

linspace(lo, hi) == Array("linspace", LinspaceNum, <<lo, hi>>)

\* the keys plot_functions[graph_type] reads, in order
PlotKeys(graph_type) ==
    CASE graph_type \in {"polynomial", "derivative", "integral"} -> <<"coefficients">>
      [] graph_type \in {"sin", "cos"} -> <<"amplitude", "frequency">>
      [] graph_type = "linear" -> <<"y">>

\* plot_functions[graph_type](): an array over x for the computed types,
\* the list data['y'] itself for 'linear'
plot_functions(graph_type, d, x) ==
    IF graph_type = "linear" THEN Array("list", Len(d["y"]), d["y"])
    ELSE LET keys == PlotKeys(graph_type)
         IN  Array(graph_type, x.len, [j \in 1..Len(keys) |-> d[keys[j]]])

\* the keys the circle / sector branch reads
ShapeKeys(graph_type) ==
    IF graph_type = "circle" THEN <<"radius">>
    ELSE <<"radius", "start_angle", "end_angle">>

\* the keys the title and the axis labels read
TitleKeys(graph_type) ==
    (IF graph_type = "polynomial" THEN <<"degree">> ELSE <<>>) \o <<"xlabel", "ylabel">>

Missing(keys, d) == \E j \in 1..Len(keys) : keys[j] \notin DOMAIN d

title(graph_type, d) ==
    CASE graph_type = "polynomial" -> <<d["degree"], "ji-kansuu">>
      [] graph_type = "sin" -> <<"seigen-kansuu">>
      [] graph_type = "cos" -> <<"yogen-kansuu">>
      [] graph_type = "derivative" -> <<"dou-kansuu">>
      [] graph_type = "integral" -> <<"sekibun-kansuu">>
      [] graph_type = "circle" -> <<"en">>
      [] graph_type = "sector" -> <<"ougi-gata">>
      [] OTHER -> <<"senkei-kansuu">>

Plotted == {"polynomial", "sin", "cos", "derivative", "integral", "linear"}

\* the figure create_graph returns, or the exception it raises
create_graph(d) ==
    LET graph_type == Get(d, "type", "linear")
        x_min == Get(d, "x_min", IntVal(-10))
        x_max == Get(d, "x_max", IntVal(10))
        y_min == Get(d, "y_min", IntVal(-10))
        y_max == Get(d, "y_max", IntVal(10))
        x == linspace(x_min, x_max)
        round == graph_type \in {"circle", "sector"}
    IN  IF graph_type \in Plotted /\ Missing(PlotKeys(graph_type), d)
        THEN Raise("KeyError")
        ELSE IF graph_type \in Plotted /\ plot_functions(graph_type, d, x).len # x.len
        THEN Raise("ValueError")
        ELSE IF round /\ Missing(ShapeKeys(graph_type), d)
        THEN Raise("KeyError")
        ELSE IF Missing(TitleKeys(graph_type), d)
        THEN Raise("KeyError")
        ELSE [ok |-> TRUE,
              fig |-> [lines |-> IF graph_type \in Plotted
                                 THEN <<[x |-> x, y |-> plot_functions(graph_type, d, x)]>>
                                 ELSE <<>>,
                       artists |-> IF round
                                   THEN <<[shape |-> IF graph_type = "circle"
                                                     THEN "Circle" ELSE "Wedge",
                                           args |-> [j \in 1..Len(ShapeKeys(graph_type))
                                                       |-> d[ShapeKeys(graph_type)[j]]]]>>
                                   ELSE <<>>,
                       title |-> title(graph_type, d),
                       xlabel |-> d["xlabel"],
                       ylabel |-> d["ylabel"],
                       xlim |-> IF round
                                THEN <<AddInt(Neg(d["radius"]), -1), AddInt(d["radius"], 1)>>
                                ELSE <<x_min, x_max>>,
                       ylim |-> IF round
                                THEN <<AddInt(Neg(d["radius"]), -1), AddInt(d["radius"], 1)>>
                                ELSE <<y_min, y_max>>,
                       aspect |-> IF round THEN "equal" ELSE "auto"]]

\* get_image_base64(fig): the figure saved as PNG, the bytes base64-encoded
\* and decoded to text
get_image_base64(f) == [base64 |-> [png |-> f]]

--------------------------------------------------------------------------
(* One run of the script main().  Streamlit runs it from the top on every *)
(* interaction; locals start unassigned, st.session_state is kept.        *)

\* the button branch with the image encoded before the figure is shown
MainStepsEncodeFirst ==
    <<"create_graph", "get_image_base64", "st.pyplot", "st.session_state">>

\* the statements of the button branch, lines 137-141, in order
MainSteps == <<"create_graph", "st.pyplot", "get_image_base64", "st.session_state">>

At(name) == pc = "generate" /\ MainSteps[step] = name

\* after a statement of the button branch: on to the next, or the run ends
Advance == IF step = Len(MainSteps)
           THEN pc' = "done" /\ step' = 0
           ELSE pc' = pc /\ step' = step + 1

Init ==
    /\ pc = "start"
    /\ step = 0
    /\ widgets = None
    /\ pressed = FALSE
    /\ data = <<>>
    /\ fig = None
    /\ img_str = None
    /\ page = [errors |-> <<>>, pyplot |-> None]
    /\ exc = "none"
    /\ session_state = <<>>
    /\ s = <<>>
    /\ result = None

\* a new run that also starts with an empty st.session_state
NewRunForgetting ==
    /\ pc = "done"
    /\ pc' = "start"
    /\ step' = 0
    /\ widgets' = None
    /\ pressed' = FALSE
    /\ data' = <<>>
    /\ fig' = None
    /\ img_str' = None
    /\ page' = [errors |-> <<>>, pyplot |-> None]
    /\ exc' = "none"
    /\ session_state' = <<>>
    /\ UNCHANGED <<s, result>>

\* an interaction makes Streamlit run the script again from the top, lines
\* 100-101: the page is redrawn and the locals of the last run are gone
NewRun ==
    /\ pc = "done"
    /\ pc' = "start"
    /\ step' = 0
    /\ widgets' = None
    /\ pressed' = FALSE
    /\ data' = <<>>
    /\ fig' = None
    /\ img_str' = None
    /\ page' = [errors |-> <<>>, pyplot |-> None]
    /\ exc' = "none"
    /\ UNCHANGED <<session_state, s, result>>

\* lines 103-106: the script reads the form as the user left it (w) and
\* st.button will report whether the interaction was a press of the button
ReadForm(w, btn) ==
    /\ pc = "start"
    /\ pc' = "form"
    /\ widgets' = w
    /\ pressed' = btn
    /\ data' = InitialData(w)
    /\ UNCHANGED <<step, fig, img_str, page, exc, session_state, s, result>>

\* lines 108-134
BuildForm ==
    /\ pc = "form"
    /\ LET r == FillData(widgets, DataKeys(widgets), data, <<>>)
       IN  /\ data' = r.data
           /\ page' = [page EXCEPT !.errors = r.errors]
           /\ exc' = r.raised
           /\ pc' = IF r.raised = "none" THEN "button" ELSE "done"
    /\ UNCHANGED <<step, widgets, pressed, fig, img_str, session_state, s, result>>

\* line 136
Button ==
    /\ pc = "button"
    /\ IF pressed THEN pc' = "generate" /\ step' = 1
                  ELSE pc' = "done" /\ step' = 0
    /\ UNCHANGED <<widgets, pressed, data, fig, img_str, page, exc, session_state,
                   s, result>>

\* line 137
CreateGraph ==
    /\ At("create_graph")
    /\ LET r == create_graph(data)
       IN  IF r.ok
           THEN fig' = r.fig /\ Advance /\ exc' = exc
           ELSE fig' = fig /\ pc' = "done" /\ step' = 0 /\ exc' = r.exc
    /\ UNCHANGED <<widgets, pressed, data, img_str, page, session_state, s, result>>

\* line 138
Pyplot ==
    /\ At("st.pyplot")
    /\ page' = [page EXCEPT !.pyplot = fig]
    /\ Advance
    /\ UNCHANGED <<widgets, pressed, data, fig, img_str, exc, session_state, s, result>>

\* line 140
GetImageBase64 ==
    /\ At("get_image_base64")
    /\ img_str' = get_image_base64(fig)
    /\ Advance
    /\ UNCHANGED <<widgets, pressed, data, fig, page, exc, session_state, s, result>>

\* line 141
StoreImage ==
    /\ At("st.session_state")
    /\ session_state' = Put(session_state, "graph_image", img_str)
    /\ Advance
    /\ UNCHANGED <<widgets, pressed, data, fig, img_str, page, exc, s, result>>

Next ==
    \/ NewRun
    \/ \E w \in Forms, btn \in BOOLEAN : ReadForm(w, btn)
    \/ BuildForm
    \/ Button
    \/ CreateGraph
    \/ Pyplot
    \/ GetImageBase64
    \/ StoreImage

Spec == Init /\ [][Next]_vars

--------------------------------------------------------------------------
(* Direct calls of parse_fraction on every string over Alphabet of length *)
(* at most MaxLen.                                                        *)

Strings == UNION {[1..n -> Alphabet] : n \in 0..MaxLen}

InitParse ==
    /\ pc = "call"
    /\ step = 0
    /\ widgets = None
    /\ pressed = FALSE
    /\ data = <<>>
    /\ fig = None
    /\ img_str = None
    /\ page = [errors |-> <<>>, pyplot |-> None]
    /\ exc = "none"
    /\ session_state = <<>>
    /\ s \in Strings
    /\ result = None

\* result = parse_fraction(s), with the message it puts on the page
CallParseFraction ==
    /\ pc = "call"
    /\ LET r == parse_fraction(s)
       IN  /\ result' = r
           /\ page' = [page EXCEPT !.errors = IF r.error THEN <<s>> ELSE <<>>]
           /\ exc' = r.raised
    /\ pc' = "returned"
    /\ UNCHANGED <<step, widgets, pressed, data, fig, img_str, session_state, s>>

NextParse == CallParseFraction

SpecParse == InitParse /\ [][NextParse]_vars

--------------------------------------------------------------------------
(* Properties of a run of main() *)

\* C1 as stated: the figure is encoded to an image before it is displayed,
\* so whenever the page shows the figure, img_str already holds its encoding.
C1_EncodedBeforeDisplayed ==
    page.pyplot # None => img_str # None

\* C1, amended: the steps of a generating run happen in the order build
\* data, create_graph, st.pyplot, get_image_base64: a figure exists only
\* once every key of the form is in data, the page shows only the figure
\* create_graph returned, and img_str is assigned only once the page already
\* shows that figure, as its encoding: display comes before encoding.
C1_DisplayedBeforeEncoded ==
    /\ fig # None =>
         /\ pressed
         /\ \A j \in 1..Len(DataKeys(widgets)) : DataKeys(widgets)[j] \in DOMAIN data
    /\ page.pyplot # None => fig # None /\ page.pyplot = fig
    /\ img_str # None =>
         /\ page.pyplot # None
         /\ page.pyplot = fig
         /\ img_str = get_image_base64(fig)

\* a generating run that has displayed its figure and then encoded it
C1_Witness ==
    /\ pc = "done"
    /\ pressed
    /\ page.pyplot # None
    /\ img_str = get_image_base64(page.pyplot)

AllNumbers(w) ==
    \A j \in 1..Len(DataKeys(w)) :
        LET texts == KeyTexts(w, DataKeys(w)[j])
        IN  \A i \in 1..Len(texts) :
                /\ parse_fraction(texts[i]).raised = "none"
                /\ ~parse_fraction(texts[i]).error

\* C3: for each of the eight graph types, a press of the button with field
\* values that parse as numbers ends with a figure from create_graph that
\* holds the plot of that type (a line whose x and y have the same length,
\* or the circle / wedge), and never with an error.
C3_EveryTypePlots ==
    (pc = "done" /\ pressed /\ AllNumbers(widgets)) =>
        /\ exc = "none"
        /\ fig # None
        /\ widgets.type \in Plotted =>
             /\ Len(fig.lines) = 1
             /\ fig.lines[1].x.len = fig.lines[1].y.len
             /\ fig.lines[1].y.src = widgets.type
        /\ widgets.type \notin Plotted => Len(fig.artists) = 1

\* C6: for graph type 'linear' the plotted points are the pairs of the
\* entered x values and y values: the line's x is the list data['x'] and
\* its y the list data['y'].
C6_LinearPlotsEnteredPoints ==
    (pc = "done" /\ pressed /\ widgets.type = "linear" /\ AllNumbers(widgets)) =>
        /\ fig # None
        /\ Len(fig.lines) = 1
        /\ fig.lines[1].x.src = "list"
        /\ fig.lines[1].x.args = data["x"]
        /\ fig.lines[1].y.args = data["y"]

--------------------------------------------------------------------------
(* Properties of parse_fraction *)

\* C4: parse_fraction never raises: it returns the parsed number, or reports
\* an error message and returns 0.
C4_NeverRaises ==
    pc = "returned" =>
        /\ result.raised = "none"
        /\ exc = "none"
        /\ result.error => result.ret = IntZero /\ page.errors = <<s>>
        /\ ~result.error => result.ret.kind = "float" /\ page.errors = <<>>

TermChars == Digits \cup {".", "/"}

\* length of the longest prefix of t made of term characters
RECURSIVE TermPrefix(_, _)
TermPrefix(t, i) ==
    IF i < Len(t) /\ t[i + 1] \in TermChars THEN TermPrefix(t, i + 1) ELSE i

\* the sum denoted by a '+'-separated list of optionally signed terms (an
\* integer, a decimal or p/q with q non-zero), or a failure when t is no
\* such list
RECURSIVE TermListSum(_, _)
TermListSum(t, acc) ==
    LET signed == t # <<>> /\ t[1] \in {"+", "-"}
        rest == IF signed THEN Tail(t) ELSE t
        n == TermPrefix(rest, 0)
        f == FractionBody(IF signed /\ t[1] = "-" THEN -1 ELSE 1, SubSeq(rest, 1, n))
        after == SubSeq(rest, n + 1, Len(rest))
    IN  IF ~f.ok THEN Raise("not a term list")
        ELSE IF after = <<>> THEN Ok(FracAdd(acc, f.val))
        ELSE IF after[1] = "+" THEN TermListSum(Tail(after), FracAdd(acc, f.val))
        ELSE Raise("not a term list")

\* C5: for a '+'-separated list of optionally signed terms, spaces anywhere,
\* parse_fraction returns the sum of the terms' values as a float and
\* reports no error, and the same with the spaces taken out.
C5_SumOfTerms ==
    (pc = "returned" /\ TermListSum(RemoveSpaces(s), <<0, 1>>).ok) =>
        /\ result.raised = "none"
        /\ ~result.error
        /\ result.ret = Float(TermListSum(RemoveSpaces(s), <<0, 1>>).val)
        /\ result = parse_fraction(RemoveSpaces(s))

==========================================================================
